---------------------------- MODULE Spec2Model ----------------------------
(***************************************************************************)
(* Model of mokuro's batch entry point, run() in src/mokuro/run.py.        *)
(*                                                                         *)
(* Strings are sequences of one-character strings, so that the string      *)
(* operations the code relies on (lower(), Path.stem, path joining,        *)
(* natural sorting of str(path)) are computed and not assumed.             *)
(***************************************************************************)
EXTENDS Integers, Sequences, FiniteSets

(***************************************************************************)
(* Bounds of the model.                                                    *)
(***************************************************************************)
MaxExplicit == 2
MaxChildren == 2

(***************************************************************************)
(* Characters.                                                             *)
(***************************************************************************)
Ord ==
  [c \in {" ", ".", "/", "0", "1", "2", "E", "N", "O", "S", "Y",
          "_", "b", "c", "e", "f", "n", "o", "p", "q", "r", "s", "v", "y", "~"} |->
     CASE c = " " -> 32  [] c = "." -> 46  [] c = "/" -> 47
       [] c = "0" -> 48  [] c = "1" -> 49  [] c = "2" -> 50
       [] c = "E" -> 69  [] c = "N" -> 78  [] c = "O" -> 79
       [] c = "S" -> 83  [] c = "Y" -> 89  [] c = "_" -> 95
       [] c = "b" -> 98  [] c = "c" -> 99  [] c = "e" -> 101
       [] c = "f" -> 102 [] c = "n" -> 110 [] c = "o" -> 111
       [] c = "p" -> 112 [] c = "q" -> 113 [] c = "r" -> 114
       [] c = "s" -> 115 [] c = "v" -> 118 [] c = "y" -> 121
       [] c = "~" -> 126]

Chars == DOMAIN Ord

IsDigit(c) == Ord[c] >= 48 /\ Ord[c] <= 57

DigitVal(c) == Ord[c] - 48

IsUpper(c) == Ord[c] >= 65 /\ Ord[c] <= 90

\* str.lower() on one character
LowerChar(c) ==
  IF IsUpper(c) THEN CHOOSE d \in Chars : Ord[d] = Ord[c] + 32 ELSE c

\* str.lower()
Lower(s) == [k \in 1..Len(s) |-> LowerChar(s[k])]

\* lexicographic order of two strings by code point (Python's str <)
RECURSIVE StrLess(_, _)
StrLess(a, b) ==
  IF a = <<>> THEN b # <<>>
  ELSE IF b = <<>> THEN FALSE
  ELSE IF Head(a) = Head(b) THEN StrLess(Tail(a), Tail(b))
  ELSE Ord[Head(a)] < Ord[Head(b)]

(***************************************************************************)
(* pathlib                                                                 *)
(***************************************************************************)
Cwd == <<"/", "p">>

Home == <<"/", "p">>

\* Path(p): a trailing separator is not part of the path
RECURSIVE PurePath(_)
PurePath(s) ==
  IF Len(s) > 1 /\ s[Len(s)] = "/" THEN PurePath(SubSeq(s, 1, Len(s) - 1)) ELSE s

\* Path.expanduser(): a leading "~" component is replaced by the home directory
ExpandUser(s) ==
  IF s # <<>> /\ Head(s) = "~" /\ (Len(s) = 1 \/ s[2] = "/")
    THEN Home \o Tail(s)
    ELSE s

\* Path.absolute(): a relative path is joined to the working directory
Absolute(s) ==
  IF s # <<>> /\ Head(s) = "/" THEN s ELSE Cwd \o <<"/">> \o s

\* Path(p).expanduser().absolute()
Normalize(raw) == Absolute(ExpandUser(PurePath(raw)))

\* parent / name
JoinPath(dir, name) == dir \o <<"/">> \o name

\* index of the last occurrence of c in s, 0 if none
RECURSIVE RFind(_, _)
RFind(s, c) ==
  IF s = <<>> THEN 0
  ELSE IF s[Len(s)] = c THEN Len(s)
  ELSE RFind(SubSeq(s, 1, Len(s) - 1), c)

\* Path.name: the final component
BaseName(p) == SubSeq(p, RFind(p, "/") + 1, Len(p))

\* Path.stem: the final component without its last suffix
Stem(p) ==
  LET name == BaseName(p)
      i    == RFind(name, ".")
  IN  IF i > 1 /\ i < Len(name) THEN SubSeq(name, 1, i - 1) ELSE name

(***************************************************************************)
(* natsort: natsorted(paths) with the default algorithm.  The key of a     *)
(* path is its string form split at the runs of decimal digits; a run of   *)
(* digits is compared by value, the text between by code point.  A key     *)
(* that would begin with a number is given an empty text in front, so the  *)
(* chunks of any two keys alternate in the same way.                       *)
(***************************************************************************)
\* length of the leading run of digits (d = TRUE) or of non-digits (d = FALSE)
RECURSIVE RunLen(_, _)
RunLen(s, d) ==
  IF s = <<>> \/ IsDigit(Head(s)) # d THEN 0 ELSE 1 + RunLen(Tail(s), d)

\* int() of a run of digits
RECURSIVE NumVal(_)
NumVal(s) ==
  IF s = <<>> THEN 0 ELSE 10 * NumVal(SubSeq(s, 1, Len(s) - 1)) + DigitVal(s[Len(s)])

RECURSIVE Chunks(_)
Chunks(s) ==
  IF s = <<>> THEN <<>>
  ELSE LET d == IsDigit(Head(s))
           n == RunLen(s, d)
           h == SubSeq(s, 1, n)
       IN  <<IF d THEN [num |-> TRUE, val |-> NumVal(h), txt |-> <<>>]
                  ELSE [num |-> FALSE, val |-> 0, txt |-> h]>>
           \o Chunks(SubSeq(s, n + 1, Len(s)))

NatKey(s) ==
  IF s # <<>> /\ IsDigit(Head(s))
    THEN <<[num |-> FALSE, val |-> 0, txt |-> <<>>]>> \o Chunks(s)
    ELSE Chunks(s)

ChunkLess(a, b) ==
  IF a.num /\ b.num THEN a.val < b.val ELSE StrLess(a.txt, b.txt)

\* Python's tuple <
RECURSIVE KeyLess(_, _)
KeyLess(k1, k2) ==
  IF k1 = <<>> THEN k2 # <<>>
  ELSE IF k2 = <<>> THEN FALSE
  ELSE IF Head(k1) = Head(k2) THEN KeyLess(Tail(k1), Tail(k2))
  ELSE ChunkLess(Head(k1), Head(k2))

\* the order natsorted() sorts by
NatLess(a, b) == KeyLess(NatKey(a), NatKey(b))

\* sorted() is stable: x goes behind every element that is not greater
RECURSIVE InsertSorted(_, _)
InsertSorted(x, s) ==
  IF s = <<>> THEN <<x>>
  ELSE IF NatLess(x, Head(s)) THEN <<x>> \o s
  ELSE <<Head(s)>> \o InsertSorted(x, Tail(s))

\* sorted(): plain order of the strings, digits compared as characters
RECURSIVE InsertLex(_, _)
InsertLex(x, s) ==
  IF s = <<>> THEN <<x>>
  ELSE IF StrLess(x, Head(s)) THEN <<x>> \o s
  ELSE <<Head(s)>> \o InsertLex(x, Tail(s))

RECURSIVE lexsorted(_)
lexsorted(s) ==
  IF s = <<>> THEN <<>>
  ELSE InsertLex(s[Len(s)], lexsorted(SubSeq(s, 1, Len(s) - 1)))

RECURSIVE natsorted(_)
natsorted(s) ==
  IF s = <<>> THEN <<>>
  ELSE InsertSorted(s[Len(s)], natsorted(SubSeq(s, 1, Len(s) - 1)))

(***************************************************************************)
(* The inputs of a run: the command line, the file system, the operator.   *)
(***************************************************************************)
None == <<"N", "O", "N", "E">>

RESERVED == <<"_", "o", "c", "r">>

\* explicit path arguments a caller may give
RawPaths ==
  { <<"v", "1">>,
    <<"~", "/", "v", "1", "0", "/">>,
    <<"/", "p", "/", "_", "o", "c", "r">> }

\* values of parent_dir: not given, a directory that exists, one that does not
RawParents == { None, <<"~">>, <<"/", "q">> }

\* the directories of the file system that can be enumerated
ListableDirs == { <<"/", "p">> }

\* what the directory /p may hold
Entries ==
  { [name |-> <<"v", "1">>, is_dir |-> TRUE],
    [name |-> <<"v", "2">>, is_dir |-> TRUE],
    [name |-> <<"_", "o", "c", "r">>, is_dir |-> TRUE],
    [name |-> <<"_", "o", "c", "r", ".", "b">>, is_dir |-> TRUE],
    [name |-> <<"f">>, is_dir |-> FALSE] }

\* lines the operator may type
Lines ==
  { <<"y">>, <<"Y", "E", "S">>, <<" ", "y", "e", "s">>, <<"y", " ">>,
    <<"n", "o">>, <<>>, <<"y", "e", "s", "s">> }

SeqsUpTo(S, n) == UNION { [1..k -> S] : k \in 0..n }

\* the contents the parent directory may have
Contents(n) == { d \in SUBSET Entries : Cardinality(d) <= n }

Range(s) == { s[k] : k \in 1..Len(s) }

(***************************************************************************)
(* State                                                                   *)
(***************************************************************************)
VARIABLES
  args,                 \* *paths as given
  parent_dir,           \* parent_dir as given, or None
  disable_confirmation, \* the option of that name
  right_to_left,        \* the option of that name, one of the reader toggles
  dir,                  \* the entries of the parent directory
  pc,                   \* position of run()
  exc,                  \* the exception that left run(), if any
  paths,                \* the local variable paths
  seen,                 \* the entries iterdir() has yielded so far
  printed,              \* the paths printed under "Paths to process"
  reads,                \* number of input() calls
  inp,                  \* the line read by input()
  ovg,                  \* number of OverlayGenerator constructions begun
  ovg_state,            \* the default_state the constructed processor holds
  i,                    \* number of loop iterations completed
  in_call,              \* process_dir is running
  calls,                \* the paths process_dir was invoked on, in order
  served,               \* the processor each invocation was made on
  outcomes,             \* how each finished invocation ended
  num_sucessful,        \* the local variable of that name
  log                   \* the loguru records emitted, in order

vars == <<args, parent_dir, disable_confirmation, right_to_left, dir, pc, exc,
          paths, seen, printed, reads, inp, ovg, ovg_state, i, in_call, calls,
          served, outcomes, num_sucessful, log>>

inputs == <<args, parent_dir, disable_confirmation, right_to_left, dir>>

\* the dict of lines 49-64; the toggles other than right_to_left are left at
\* the defaults of the signature
default_state ==
  [page_idx |-> 0, page2_idx |-> -1, defaultZoomMode |-> "fit to screen",
   r2l |-> right_to_left, doublePageView |-> TRUE, hasCover |-> FALSE,
   ctrlToPan |-> FALSE, displayOCR |-> TRUE, textBoxBorders |-> FALSE,
   editableText |-> FALSE, fontSize |-> "auto", eInkMode |-> FALSE,
   toggleOCRTextBoxes |-> FALSE, backgroundColor |-> "#C4C3D0"]

\* no processor yet
NoState == [r2l |-> "none"]

Init ==
  /\ args \in SeqsUpTo(RawPaths, MaxExplicit)
  /\ parent_dir \in RawParents
  /\ disable_confirmation \in BOOLEAN
  /\ right_to_left \in BOOLEAN
  /\ dir \in Contents(MaxChildren)
  /\ (parent_dir = None \/ Normalize(parent_dir) \notin ListableDirs) => dir = {}
  /\ pc = "normalize"
  /\ exc = "none"
  /\ paths = <<>>
  /\ seen = {}
  /\ printed = <<>>
  /\ reads = 0
  /\ inp = <<>>
  /\ ovg = 0
  /\ ovg_state = NoState
  /\ i = 0
  /\ in_call = FALSE
  /\ calls = <<>>
  /\ served = <<>>
  /\ outcomes = <<>>
  /\ num_sucessful = 0
  /\ log = <<>>

(***************************************************************************)
(* run()                                                                   *)
(***************************************************************************)
\* a resolver that keeps only the explicit paths found to be directories
NormalizePathsExisting ==
  /\ pc = "normalize"
  /\ LET IsDir(r) == Normalize(r) \in { JoinPath(d, e.name) :
                                          d \in ListableDirs,
                                          e \in { x \in dir : x.is_dir } }
     IN  paths' = [k \in 1..Len(SelectSeq(args, IsDir)) |->
                     Normalize(SelectSeq(args, IsDir)[k])]
  /\ pc' = IF parent_dir = None THEN "check_empty" ELSE "iterdir"
  /\ UNCHANGED <<inputs, exc, seen, printed, reads, inp, ovg, i, in_call,
                 calls, outcomes, num_sucessful, log, ovg_state, served>>

\* paths = [Path(p).expanduser().absolute() for p in paths]
NormalizePaths ==
  /\ pc = "normalize"
  /\ paths' = [k \in 1..Len(args) |-> Normalize(args[k])]
  /\ pc' = IF parent_dir = None THEN "check_empty" ELSE "iterdir"
  /\ UNCHANGED <<inputs, exc, seen, printed, reads, inp, ovg, i, in_call,
                 calls, outcomes, num_sucessful, log, ovg_state, served>>

\* Path(parent_dir).expanduser().absolute().iterdir() on a directory that can
\* be listed
IterdirOpen ==
  /\ pc = "iterdir"
  /\ Normalize(parent_dir) \in ListableDirs
  /\ pc' = "scan"
  /\ UNCHANGED <<inputs, exc, paths, seen, printed, reads, inp, ovg, i,
                 in_call, calls, outcomes, num_sucessful, log, ovg_state,
                 served>>

\* a scan that swallows the error and goes on with the explicit paths
IterdirFailsIgnored ==
  /\ pc = "iterdir"
  /\ Normalize(parent_dir) \notin ListableDirs
  /\ pc' = "check_empty"
  /\ UNCHANGED <<inputs, exc, paths, seen, printed, reads, inp, ovg, i,
                 in_call, calls, outcomes, num_sucessful, log, ovg_state,
                 served>>

\* ... and on one that is missing or cannot be listed: the OSError leaves run()
IterdirFails ==
  /\ pc = "iterdir"
  /\ Normalize(parent_dir) \notin ListableDirs
  /\ pc' = "raised"
  /\ exc' = "OSError"
  /\ UNCHANGED <<inputs, paths, seen, printed, reads, inp, ovg, i, in_call,
                 calls, outcomes, num_sucessful, log, ovg_state, served>>

\* a test without "p not in paths"
AcceptedNoDedup(p, is_dir, ps) == is_dir /\ Stem(p) # RESERVED

\* a test without the reserved name
AcceptedNoReserved(p, is_dir, ps) == is_dir /\ p \notin Range(ps)

\* the test of line 73 on one child p of the parent directory
Accepted(p, is_dir, ps) == is_dir /\ Stem(p) # RESERVED /\ p \notin Range(ps)

\* one iteration of the for loop over iterdir(), which yields the entries in
\* arbitrary order
ScanChild ==
  /\ pc = "scan"
  /\ \E e \in dir \ seen :
       LET p == JoinPath(Normalize(parent_dir), e.name)
       IN  /\ paths' = IF Accepted(p, e.is_dir, paths) THEN Append(paths, p) ELSE paths
           /\ seen' = seen \cup {e}
  /\ UNCHANGED <<inputs, pc, exc, printed, reads, inp, ovg, i, in_call, calls,
                 outcomes, num_sucessful, log, ovg_state, served>>

\* iterdir() is exhausted
ScanEnd ==
  /\ pc = "scan"
  /\ seen = dir
  /\ pc' = "check_empty"
  /\ UNCHANGED <<inputs, exc, paths, seen, printed, reads, inp, ovg, i,
                 in_call, calls, outcomes, num_sucessful, log, ovg_state,
                 served>>

\* an empty-set check that logs but does not return
NoPathsFallsThrough ==
  /\ pc = "check_empty"
  /\ Len(paths) = 0
  /\ log' = Append(log, [level |-> "ERROR", kind |-> "no_paths"])
  /\ printed' = paths
  /\ pc' = "confirm"
  /\ UNCHANGED <<inputs, exc, paths, seen, reads, inp, ovg, i, in_call, calls,
                 outcomes, num_sucessful, ovg_state, served>>

\* if len(paths) == 0: logger.error(...); return
NoPaths ==
  /\ pc = "check_empty"
  /\ Len(paths) = 0
  /\ log' = Append(log, [level |-> "ERROR", kind |-> "no_paths"])
  /\ pc' = "returned"
  /\ UNCHANGED <<inputs, exc, paths, seen, printed, reads, inp, ovg, i,
                 in_call, calls, outcomes, num_sucessful, ovg_state, served>>

\* a listing printed before the sort
ListThenSort ==
  /\ pc = "check_empty"
  /\ Len(paths) # 0
  /\ paths' = natsorted(paths)
  /\ printed' = paths
  /\ pc' = "confirm"
  /\ UNCHANGED <<inputs, exc, seen, reads, inp, ovg, i, in_call, calls,
                 outcomes, num_sucessful, log, ovg_state, served>>

\* paths = natsorted(paths), then the listing is printed
SortAndList ==
  /\ pc = "check_empty"
  /\ Len(paths) # 0
  /\ paths' = natsorted(paths)
  /\ printed' = paths'
  /\ pc' = "confirm"
  /\ UNCHANGED <<inputs, exc, seen, reads, inp, ovg, i, in_call, calls,
                 outcomes, num_sucessful, log, ovg_state, served>>

\* a test that does not fold the case of the line
AffirmativeCaseSensitive(line) == line \in { <<"y">>, <<"y", "e", "s">> }

\* the test of line 88 on the line read
Affirmative(line) == Lower(line) \in { <<"y">>, <<"y", "e", "s">> }

\* an option that drops the test of the answer but not the prompt
ConfirmSkippedReads ==
  /\ pc = "confirm"
  /\ disable_confirmation
  /\ \E line \in Lines : inp' = line
  /\ reads' = reads + 1
  /\ pc' = "construct"
  /\ UNCHANGED <<inputs, exc, paths, seen, printed, ovg, i, in_call, calls,
                 outcomes, num_sucessful, log, ovg_state, served>>

\* disable_confirmation: input() is not called
ConfirmSkipped ==
  /\ pc = "confirm"
  /\ disable_confirmation
  /\ pc' = "construct"
  /\ UNCHANGED <<inputs, exc, paths, seen, printed, reads, inp, ovg, i,
                 in_call, calls, outcomes, num_sucessful, log, ovg_state,
                 served>>

\* a gate that asks again after a rejection
ConfirmRetry ==
  /\ pc = "confirm"
  /\ ~disable_confirmation
  /\ reads < 2
  /\ \E line \in Lines :
       /\ inp' = line
       /\ pc' = IF Affirmative(line) THEN "construct" ELSE "confirm"
  /\ reads' = reads + 1
  /\ UNCHANGED <<inputs, exc, paths, seen, printed, ovg, i, in_call, calls,
                 outcomes, num_sucessful, log, ovg_state, served>>

\* inp = input(...); if inp.lower() not in ('y', 'yes'): return
Confirm ==
  /\ pc = "confirm"
  /\ ~disable_confirmation
  /\ \E line \in Lines :
       /\ inp' = line
       /\ pc' = IF Affirmative(line) THEN "construct" ELSE "returned"
  /\ reads' = reads + 1
  /\ UNCHANGED <<inputs, exc, paths, seen, printed, ovg, i, in_call, calls,
                 outcomes, num_sucessful, log, ovg_state, served>>

\* input() at the end of standard input: the EOFError leaves run()
ConfirmEOF ==
  /\ pc = "confirm"
  /\ ~disable_confirmation
  /\ reads' = reads + 1
  /\ pc' = "raised"
  /\ exc' = "EOFError"
  /\ UNCHANGED <<inputs, paths, seen, printed, inp, ovg, i, in_call, calls,
                 outcomes, num_sucessful, log, ovg_state, served>>

\* ovg = OverlayGenerator(...) returns
Construct ==
  /\ pc = "construct"
  /\ ovg' = ovg + 1
  /\ ovg_state' = default_state
  /\ pc' = "loop"
  /\ UNCHANGED <<inputs, exc, paths, seen, printed, reads, inp, i, in_call,
                 calls, outcomes, num_sucessful, log, served>>

\* ovg = OverlayGenerator(...) raises: the call is outside the try statement
ConstructRaises ==
  /\ pc = "construct"
  /\ ovg' = ovg + 1
  /\ pc' = "raised"
  /\ exc' = "ProcessorError"
  /\ UNCHANGED <<inputs, paths, seen, printed, reads, inp, i, in_call, calls,
                 outcomes, num_sucessful, log, ovg_state, served>>

\* a loop that sets up a processor of its own for every volume
InvokeFreshProcessor ==
  /\ pc = "loop"
  /\ ~in_call
  /\ i < Len(paths)
  /\ log' = Append(log, [level |-> "INFO", kind |-> "progress", index |-> i + 1,
                         total |-> Len(paths), path |-> paths[i + 1]])
  /\ ovg' = IF i = 0 THEN ovg ELSE ovg + 1
  /\ calls' = Append(calls, paths[i + 1])
  /\ served' = Append(served, [instance |-> ovg', state |-> ovg_state])
  /\ in_call' = TRUE
  /\ UNCHANGED <<inputs, pc, exc, paths, seen, printed, reads, inp, ovg_state, i,
                 outcomes, num_sucessful>>

\* a progress record that carries the 0-based index
InvokeZeroBased ==
  /\ pc = "loop"
  /\ ~in_call
  /\ i < Len(paths)
  /\ log' = Append(log, [level |-> "INFO", kind |-> "progress", index |-> i,
                         total |-> Len(paths), path |-> paths[i + 1]])
  /\ calls' = Append(calls, paths[i + 1])
  /\ served' = Append(served, [instance |-> ovg, state |-> ovg_state])
  /\ in_call' = TRUE
  /\ UNCHANGED <<inputs, pc, exc, paths, seen, printed, reads, inp, ovg, i,
                 outcomes, num_sucessful, ovg_state>>

\* logger.info('Processing i+1/len: path'); ovg.process_dir(path, ...) begins
Invoke ==
  /\ pc = "loop"
  /\ ~in_call
  /\ i < Len(paths)
  /\ log' = Append(log, [level |-> "INFO", kind |-> "progress", index |-> i + 1,
                         total |-> Len(paths), path |-> paths[i + 1]])
  /\ calls' = Append(calls, paths[i + 1])
  /\ served' = Append(served, [instance |-> ovg, state |-> ovg_state])
  /\ in_call' = TRUE
  /\ UNCHANGED <<inputs, pc, exc, paths, seen, printed, reads, inp, ovg, i,
                 outcomes, num_sucessful, ovg_state>>

\* process_dir returns: the else branch counts the success
CallReturns ==
  /\ pc = "loop"
  /\ in_call
  /\ outcomes' = Append(outcomes, "ok")
  /\ num_sucessful' = num_sucessful + 1
  /\ i' = i + 1
  /\ in_call' = FALSE
  /\ UNCHANGED <<inputs, pc, exc, paths, seen, printed, reads, inp, ovg,
                 calls, log, ovg_state, served>>

\* a handler that counts the failed volume as a success
CallRaisesCounted ==
  /\ pc = "loop"
  /\ in_call
  /\ outcomes' = Append(outcomes, "error")
  /\ log' = Append(log, [level |-> "ERROR", kind |-> "failed", path |-> paths[i + 1]])
  /\ num_sucessful' = num_sucessful + 1
  /\ i' = i + 1
  /\ in_call' = FALSE
  /\ UNCHANGED <<inputs, pc, exc, paths, seen, printed, reads, inp, ovg,
                 calls, ovg_state, served>>

\* a loop without the try statement: the first failure leaves run()
CallRaisesAbort ==
  /\ pc = "loop"
  /\ in_call
  /\ outcomes' = Append(outcomes, "error")
  /\ pc' = "raised"
  /\ exc' = "ProcessorError"
  /\ in_call' = FALSE
  /\ UNCHANGED <<inputs, paths, seen, printed, reads, inp, ovg, i, calls,
                 num_sucessful, log, ovg_state, served>>

\* process_dir raises an Exception: logger.exception(...), next volume
CallRaises ==
  /\ pc = "loop"
  /\ in_call
  /\ outcomes' = Append(outcomes, "error")
  /\ log' = Append(log, [level |-> "ERROR", kind |-> "failed", path |-> paths[i + 1]])
  /\ i' = i + 1
  /\ in_call' = FALSE
  /\ UNCHANGED <<inputs, pc, exc, paths, seen, printed, reads, inp, ovg,
                 calls, num_sucessful, ovg_state, served>>

\* a summary that is emitted only when every volume succeeded
SummaryUnlessFailed ==
  /\ pc = "loop"
  /\ ~in_call
  /\ i = Len(paths)
  /\ log' = IF num_sucessful = Len(paths)
              THEN Append(log, [level |-> "INFO", kind |-> "summary",
                                succeeded |-> num_sucessful, total |-> Len(paths)])
              ELSE log
  /\ pc' = "returned"
  /\ UNCHANGED <<inputs, exc, paths, seen, printed, reads, inp, ovg, i,
                 in_call, calls, outcomes, num_sucessful, ovg_state, served>>

\* logger.info('Processed successfully: n/len'), run() returns
Summary ==
  /\ pc = "loop"
  /\ ~in_call
  /\ i = Len(paths)
  /\ log' = Append(log, [level |-> "INFO", kind |-> "summary",
                         succeeded |-> num_sucessful, total |-> Len(paths)])
  /\ pc' = "returned"
  /\ UNCHANGED <<inputs, exc, paths, seen, printed, reads, inp, ovg, i,
                 in_call, calls, outcomes, num_sucessful, ovg_state, served>>

Next ==
  \/ NormalizePaths
  \/ IterdirOpen
  \/ IterdirFails
  \/ ScanChild
  \/ ScanEnd
  \/ NoPaths
  \/ SortAndList
  \/ ConfirmSkipped
  \/ Confirm
  \/ ConfirmEOF
  \/ Construct
  \/ ConstructRaises
  \/ Invoke
  \/ CallReturns
  \/ CallRaises
  \/ Summary

Spec == Init /\ [][Next]_vars

TypeOK ==
  /\ pc \in {"normalize", "iterdir", "scan", "check_empty", "confirm", "construct",
             "loop", "returned", "raised"}
  /\ exc \in {"none", "OSError", "EOFError", "ProcessorError"}
  /\ i \in 0..Len(paths)
  /\ Len(outcomes) = i
  /\ num_sucessful \in 0..i

(***************************************************************************)
(* Vocabulary of the properties                                            *)
(***************************************************************************)
\* number of occurrences of x in the sequence s
CountIn(s, x) == Cardinality({ k \in 1..Len(s) : s[k] = x })

\* the explicit arguments after normalization
NormArgs == [k \in 1..Len(args) |-> Normalize(args[k])]

\* the volumes whose process_dir call raised
Failures == CountIn(outcomes, "error")

\* the processor was constructed and the batch loop entered
InBatch == pc = "loop" \/ (pc = "returned" /\ ovg = 1)

\* strip(): the line without surrounding blanks
RECURSIVE LStrip(_)
LStrip(s) == IF s # <<>> /\ Head(s) = " " THEN LStrip(Tail(s)) ELSE s

RECURSIVE RStrip(_)
RStrip(s) ==
  IF s # <<>> /\ s[Len(s)] = " " THEN RStrip(SubSeq(s, 1, Len(s) - 1)) ELSE s

Strip(s) == LStrip(RStrip(s))

YesTokens == { <<"y">>, <<"y", "e", "s">> }

\* a line was read and the run went on to set up the processor
Proceeded == pc \in {"construct", "loop"} \/ ovg > 0

\* input() returned a line
LineRead == reads = 1 /\ exc # "EOFError"

(***************************************************************************)
(* C1: whenever the batch loop has run to its end on a working set of N    *)
(* volumes of which k raised, process_dir was invoked on all N volumes and *)
(* the summary reports N - k succeeded out of N; and no run in which a     *)
(* process_dir call was made ends with an exception.                       *)
(***************************************************************************)
C1_AllAttemptedAndCounted ==
  /\ (pc = "returned" /\ ovg = 1) =>
       /\ calls = paths
       /\ Len(outcomes) = Len(paths)
       /\ log[Len(log)] = [level |-> "INFO", kind |-> "summary",
                           succeeded |-> Len(paths) - Failures,
                           total |-> Len(paths)]
  /\ pc = "raised" => calls = <<>>

\* three volumes, the second fails: reported 2/3
C1_Witness ==
  /\ pc = "returned"
  /\ outcomes = <<"ok", "error", "ok">>
  /\ log[Len(log)].kind = "summary"
  /\ log[Len(log)].succeeded = 2

(***************************************************************************)
(* C2 as claimed: once the confirmation gate has passed, every error of    *)
(* the volume-processing capability, the set-up of the processor included, *)
(* is caught, so that run() does not end with an exception.  (The claim    *)
(* also says that the resolution error is the only exception that leaves   *)
(* run(); the EOFError of input() is a second one, raised at the gate.)    *)
(***************************************************************************)
C2_NoExceptionAfterGate ==
  Proceeded => pc # "raised"

(***************************************************************************)
(* C2 amended: an exception leaves run() only from before the batch loop   *)
(* (the resolution error, EOFError from input(), an error raised by the    *)
(* OverlayGenerator constructor), when no volume has been attempted; once  *)
(* the loop is entered every process_dir error is logged with its path and *)
(* not counted, the remaining volumes are attempted and run() returns.     *)
(***************************************************************************)
C2_ErrorsInTheLoopAreCaught ==
  /\ pc = "raised" =>
       /\ calls = <<>>
       /\ exc = "OSError" => (ovg = 0 /\ reads = 0 /\ printed = <<>>)
       /\ exc = "EOFError" => (ovg = 0 /\ reads = 1)
       /\ exc = "ProcessorError" => ovg = 1
       /\ exc # "none"
  /\ InBatch =>
       /\ exc = "none"
       /\ num_sucessful = Len(outcomes) - Failures
       /\ \A k \in 1..Len(outcomes) :
            outcomes[k] = "error" =>
              CountIn(log, [level |-> "ERROR", kind |-> "failed", path |-> calls[k]]) >= 1
       /\ pc = "returned" => calls = paths

\* every volume of a batch of two failed and run() returned
C2_Witness ==
  /\ pc = "returned"
  /\ outcomes = <<"error", "error">>
  /\ calls = paths

(***************************************************************************)
(* C3 as claimed: after a line was read, the run proceeds exactly when the *)
(* line, trimmed and lower-cased, is "y" or "yes".                         *)
(***************************************************************************)
C3_TrimmedAffirmativeProceeds ==
  LineRead => (Proceeded <=> Lower(Strip(inp)) \in YesTokens)

(***************************************************************************)
(* C3 amended: after a line was read, the run proceeds exactly when the    *)
(* line as typed, lower-cased but not trimmed, is "y" or "yes"; for every  *)
(* other line no volume is processed.                                      *)
(***************************************************************************)
C3_UntrimmedAffirmativeProceeds ==
  LineRead =>
    /\ Proceeded <=> Lower(inp) \in YesTokens
    /\ ~Proceeded => (calls = <<>> /\ pc = "returned")

\* "YES" was typed and the volumes were processed
C3_Witness ==
  /\ LineRead
  /\ inp = <<"Y", "E", "S">>
  /\ pc = "returned"
  /\ calls = paths
  /\ Len(calls) >= 1

(***************************************************************************)
(* C4: a rejected confirmation ends the run at once: run() has returned    *)
(* without an exception, the processor was not constructed, process_dir    *)
(* was never invoked and the prompt was read exactly once.                 *)
(***************************************************************************)
C4_RejectionEndsRun ==
  (LineRead /\ Lower(inp) \notin YesTokens) =>
    /\ pc = "returned"
    /\ exc = "none"
    /\ ovg = 0
    /\ calls = <<>>
    /\ reads = 1
    /\ log = <<>>

\* the operator typed "no" on a working set of two volumes
C4_Witness ==
  /\ LineRead
  /\ inp = <<"n", "o">>
  /\ Len(printed) = 2
  /\ pc = "returned"

(***************************************************************************)
(* C5: an empty working set after resolution ends the run normally with    *)
(* one error-level record and nothing else: no listing, no input() call,   *)
(* no processor and no process_dir call; and only a non-empty working set  *)
(* gets as far as the listing.                                             *)
(***************************************************************************)
C5_EmptyWorkingSet ==
  /\ (paths = <<>> /\ pc \notin {"normalize", "iterdir", "scan", "check_empty", "raised"}) =>
       /\ pc = "returned"
       /\ exc = "none"
       /\ log = <<[level |-> "ERROR", kind |-> "no_paths"]>>
       /\ printed = <<>>
       /\ reads = 0
       /\ ovg = 0
       /\ calls = <<>>
  /\ (pc = "returned" /\ args = <<>> /\ (parent_dir = None \/ dir = {})) =>
       paths = <<>>

\* a parent directory that holds entries, none of which is a volume
C5_Witness ==
  /\ pc = "returned"
  /\ paths = <<>>
  /\ parent_dir # None
  /\ Cardinality(dir) >= 1
  /\ seen = dir
  /\ Len(log) = 1

(***************************************************************************)
(* More vocabulary: the parent directory as the file system has it         *)
(***************************************************************************)
\* resolution (normalization and scan) is over
Resolved == pc \in {"check_empty", "confirm", "construct", "loop", "returned"}

\* the path of the entry e of the scanned parent directory
ChildPath(e) == JoinPath(Normalize(parent_dir), e.name)

\* the child directories of the scanned parent
ChildDirs == { ChildPath(e) : e \in { x \in dir : x.is_dir } }

\* the child directory of the scanned parent that has the reserved name
ReservedChild == JoinPath(Normalize(parent_dir), RESERVED)

NoDuplicates(s) == \A a, b \in 1..Len(s) : a # b => s[a] # s[b]

\* position of x in a sequence that holds it once
IndexOf(s, x) == CHOOSE k \in 1..Len(s) : s[k] = x

(***************************************************************************)
(* C6 as claimed: the working set that is displayed and processed holds    *)
(* no path twice.                                                          *)
(***************************************************************************)
C6_WorkingSetUnique ==
  /\ NoDuplicates(printed)
  /\ NoDuplicates(calls)

(***************************************************************************)
(* C7: a path given once as an explicit argument that is also a child      *)
(* directory of the scanned parent is in the working set exactly once      *)
(* from normalization on, is invoked at most once, and exactly once in a   *)
(* run that completes the batch.                                           *)
(***************************************************************************)
C7_ExplicitAndScannedOnce ==
  \A p \in Range(NormArgs) :
    (parent_dir # None /\ CountIn(NormArgs, p) = 1 /\ p \in ChildDirs /\ pc # "normalize") =>
      /\ CountIn(paths, p) = 1
      /\ CountIn(calls, p) <= 1
      /\ (pc = "returned" /\ ovg = 1) => CountIn(calls, p) = 1

\* "v1" given relative to the working directory, /p/v1 found by the scan of ~
C7_Witness ==
  /\ args = << <<"v", "1">> >>
  /\ parent_dir = <<"~">>
  /\ Cardinality(dir) = 2
  /\ <<"/", "p", "/", "v", "1">> \in ChildDirs
  /\ pc = "returned"
  /\ CountIn(calls, <<"/", "p", "/", "v", "1">>) = 1
  /\ Len(calls) = 2

(***************************************************************************)
(* C8 as claimed: the child directory of the scanned parent that has the   *)
(* reserved name is never in the working set and never processed.          *)
(***************************************************************************)
C8_ReservedChildNeverInSet ==
  (parent_dir # None /\ ReservedChild \in ChildDirs) =>
    /\ ReservedChild \notin Range(paths)
    /\ ReservedChild \notin Range(calls)

(***************************************************************************)
(* C8 amended: the scan never adds the child directory that has the        *)
(* reserved name: it is in the working set as often as it was given as an  *)
(* explicit argument, and is processed only if it was given explicitly.    *)
(***************************************************************************)
C8_ReservedChildOnlyIfExplicit ==
  (parent_dir # None /\ ReservedChild \in ChildDirs /\ pc # "normalize") =>
    /\ CountIn(paths, ReservedChild) = CountIn(NormArgs, ReservedChild)
    /\ ReservedChild \in Range(calls) => ReservedChild \in Range(NormArgs)

\* _ocr scanned next to a volume: the volume is processed, _ocr is not
C8_Witness ==
  /\ parent_dir # None
  /\ ReservedChild \in ChildDirs
  /\ Cardinality(dir) = 2
  /\ pc = "returned"
  /\ Len(calls) >= 1
  /\ calls = paths
  /\ ReservedChild \notin Range(calls)

(***************************************************************************)
(* C9 as claimed: with a parent directory, the working set after           *)
(* resolution is the explicit paths plus every child of the parent that is *)
(* a directory and whose base name is not the reserved name.               *)
(***************************************************************************)
C9_EveryOtherChildDirIncluded ==
  (parent_dir # None /\ Resolved) =>
    Range(paths) = Range(NormArgs) \cup { c \in ChildDirs : BaseName(c) # RESERVED }

(***************************************************************************)
(* C10: from the sort on, the working set is in natural order (no entry    *)
(* is naturally less than the one before; v1, v2, v10 come in this order), *)
(* process_dir has been invoked on a prefix of it, entry by entry, and at  *)
(* most the last invocation has not finished; the sort keeps the entries   *)
(* that resolution produced, before it and after it.                       *)
(***************************************************************************)
C10_Sorted ==
  pc \in {"confirm", "construct", "loop", "returned"} =>
    LET key == [k \in 1..Len(paths) |-> NatKey(paths[k])]
        v1  == <<"/", "p", "/", "v", "1">>
        v2  == <<"/", "p", "/", "v", "2">>
        v10 == <<"/", "p", "/", "v", "1", "0">>
    IN  /\ \A k \in 1..(Len(paths) - 1) : ~KeyLess(key[k + 1], key[k])
        /\ \A a, b \in 1..Len(paths) :
             (<<paths[a], paths[b]>> \in {<<v2, v1>>, <<v10, v2>>, <<v10, v1>>}) => b < a

C10_InOrder ==
  /\ Len(calls) <= Len(paths)
  /\ calls = SubSeq(paths, 1, Len(calls))
  /\ Len(calls) = i + (IF in_call THEN 1 ELSE 0)
  /\ Len(outcomes) = i

\* the entries are those resolution produced: each path as often as it was
\* given explicitly, or once if only the scan finds it
C10_SortKeepsEntries ==
  pc \in {"check_empty", "confirm", "construct", "loop", "returned"} =>
    LET given   == NormArgs
        scanned == IF parent_dir = None THEN {}
                   ELSE { c \in ChildDirs : c \notin Range(given) /\ Stem(c) # RESERVED }
    IN  /\ Len(paths) = Len(given) + Cardinality(scanned)
        /\ \A x \in Range(given) : CountIn(paths, x) = CountIn(given, x)
        /\ scanned \subseteq Range(paths)

C10_NaturalOrderOfInvocations ==
  C10_Sorted /\ C10_InOrder /\ C10_SortKeepsEntries

\* v1, v2 and v10 were processed in this order
C10_Witness ==
  /\ pc = "returned"
  /\ calls = << <<"/", "p", "/", "v", "1">>, <<"/", "p", "/", "v", "2">>,
                <<"/", "p", "/", "v", "1", "0">> >>
  /\ Len(outcomes) = 3

(***************************************************************************)
(* Vocabulary of the diagnostics                                           *)
(***************************************************************************)
\* the positions of the records of one kind in the log
RecordsOf(kind) == { k \in 1..Len(log) : log[k].kind = kind }

\* run() is over
Ended == pc \in {"returned", "raised"}

\* parent_dir names a directory that is missing or cannot be listed
ParentUnlistable == parent_dir # None /\ Normalize(parent_dir) \notin ListableDirs

(***************************************************************************)
(* C11: with a parent directory that is missing or cannot be listed, once  *)
(* the scan has been tried run() has ended with the file system error,     *)
(* and nothing was listed, no line read, no processor constructed and no   *)
(* volume processed, whatever explicit paths were given.                   *)
(***************************************************************************)
C11_ResolutionFailureIsFatal ==
  (ParentUnlistable /\ pc \notin {"normalize", "iterdir"}) =>
    /\ pc = "raised"
    /\ exc = "OSError"
    /\ printed = <<>>
    /\ reads = 0
    /\ ovg = 0
    /\ calls = <<>>

\* two explicit paths and a parent directory that does not exist
C11_Witness ==
  /\ ParentUnlistable
  /\ Len(args) = 2
  /\ paths = NormArgs
  /\ pc = "raised"
  /\ exc = "OSError"

(***************************************************************************)
(* C12: at most one summary is ever emitted; a run that went through the   *)
(* batch loop has emitted exactly one, as its last record, after the last  *)
(* volume was attempted, with total = size of the working set and          *)
(* 0 <= succeeded <= total; a run that ended otherwise has emitted none.   *)
(***************************************************************************)
C12_OneSummaryAfterTheBatch ==
  /\ Cardinality(RecordsOf("summary")) <= 1
  /\ \A k \in RecordsOf("summary") :
       /\ k = Len(log)
       /\ pc = "returned"
       /\ Len(outcomes) = Len(paths)
       /\ log[k].total = Len(paths)
       /\ log[k].succeeded \in 0..log[k].total
  /\ (pc = "returned" /\ ovg = 1) => RecordsOf("summary") # {}
  /\ (Ended /\ ~(pc = "returned" /\ ovg = 1)) => RecordsOf("summary") = {}

\* every volume of a batch of two failed: the summary is 0/2
C12_Witness ==
  /\ pc = "returned"
  /\ Failures = 2
  /\ RecordsOf("summary") = {Len(log)}
  /\ log[Len(log)].succeeded = 0
  /\ log[Len(log)].total = 2

(***************************************************************************)
(* C13: input() is called at most once; in a run that got past the listing *)
(* it was called exactly once if confirmation is enabled and never if it   *)
(* is disabled, and then the listing was still printed and a run that      *)
(* returns has processed every listed volume.                              *)
(***************************************************************************)
C13_PromptReadAtMostOnce ==
  /\ reads <= 1
  /\ pc \in {"normalize", "iterdir", "scan", "check_empty", "confirm"} => reads = 0
  /\ (pc \in {"construct", "loop"} \/ (Ended /\ printed # <<>>)) =>
       reads = (IF disable_confirmation THEN 0 ELSE 1)
  /\ (disable_confirmation /\ pc \in {"construct", "loop", "returned"} /\ paths # <<>>) =>
       /\ printed = paths
       /\ pc = "returned" => calls = printed

\* confirmation disabled: two volumes listed and processed, nothing read
C13_Witness ==
  /\ disable_confirmation
  /\ pc = "returned"
  /\ reads = 0
  /\ Len(printed) = 2
  /\ calls = printed

(***************************************************************************)
(* C14: in the batch loop the k-th attempt has one progress record, with   *)
(* index k, the total and its path, emitted before the attempt ends; the   *)
(* failed attempts on a path have one error record each, tagged with that  *)
(* path; and succeeded + error records = completed attempts <= total.      *)
(***************************************************************************)
C14_DiagnosticsAccountForAttempts ==
  InBatch =>
    /\ Cardinality(RecordsOf("progress")) = Len(calls)
    /\ \A k \in 1..Len(calls) :
         CountIn(log, [level |-> "INFO", kind |-> "progress", index |-> k,
                       total |-> Len(paths), path |-> calls[k]]) = 1
    /\ in_call => log[Len(log)].kind = "progress" /\ log[Len(log)].index = Len(calls)
    /\ \A p \in Range(calls) :
         CountIn(log, [level |-> "ERROR", kind |-> "failed", path |-> p])
           = Cardinality({ k \in 1..Len(outcomes) : outcomes[k] = "error" /\ calls[k] = p })
    /\ Cardinality(RecordsOf("failed")) = Failures
    /\ num_sucessful + Cardinality(RecordsOf("failed")) = Len(outcomes)
    /\ Len(outcomes) = i
    /\ i <= Len(paths)

\* the first volume failed and the second attempt is running
C14_Witness ==
  /\ pc = "loop"
  /\ in_call
  /\ outcomes = <<"error">>
  /\ Len(calls) = 2
  /\ Len(log) = 3

(***************************************************************************)
(* C15: every explicit path, whether or not it exists, is in the working   *)
(* set from normalization on, is in the listing once it is printed, and    *)
(* in a run that returns after the batch loop was passed to process_dir    *)
(* along with every other entry, however its own call ended.               *)
(***************************************************************************)
C15_ExplicitPathsNotValidated ==
  \A k \in 1..Len(args) :
    LET p == Normalize(args[k])
    IN  /\ pc # "normalize" => p \in Range(paths)
        /\ printed # <<>> => p \in Range(printed)
        /\ (pc = "returned" /\ ovg = 1) =>
             /\ p \in Range(calls)
             /\ calls = paths
             /\ Len(outcomes) = Len(calls)

\* /p/_ocr is given explicitly, the scanned /p has no such entry: its call
\* fails, the two volumes found by the scan are processed after it
C15_Witness ==
  /\ args = << <<"/", "p", "/", "_", "o", "c", "r">> >>
  /\ parent_dir = <<"~">>
  /\ \A e \in dir : e.name # RESERVED
  /\ pc = "returned"
  /\ Len(calls) = 3
  /\ calls[1] = <<"/", "p", "/", "_", "o", "c", "r">>
  /\ outcomes = <<"error", "ok", "ok">>

(***************************************************************************)
(* C16: from the listing on the working set is the sequence that was       *)
(* printed: the confirmation and the outcomes of the volumes leave it as   *)
(* it is, the invocations follow the printed sequence entry by entry, and  *)
(* a run that returns after the batch loop has invoked exactly it.         *)
(***************************************************************************)
C16_WorkingSetFrozenAfterListing ==
  /\ pc \in {"normalize", "iterdir", "scan", "check_empty"} => printed = <<>>
  /\ (pc \in {"confirm", "construct", "loop"} \/ (Ended /\ printed # <<>>)) =>
       printed = paths
  /\ Len(calls) <= Len(printed)
  /\ \A k \in 1..Len(calls) : calls[k] = printed[k]
  /\ (pc = "returned" /\ ovg = 1) => Len(calls) = Len(printed)

\* three paths given out of order, confirmed, one failed: processed as listed
C16_Witness ==
  /\ pc = "returned"
  /\ reads = 1
  /\ Len(printed) = 3
  /\ Len(args) = 2
  /\ SubSeq(printed, 1, 2) # NormArgs
  /\ calls = printed
  /\ Failures = 1

(***************************************************************************)
(* C17: the OverlayGenerator constructor is called at most once, and only  *)
(* with a non-empty working set that was listed and either confirmation    *)
(* disabled or an affirmative line read; so never in a run that ended at   *)
(* the resolution error, the empty check or a rejection.  Every            *)
(* invocation of process_dir is made on that one processor, which holds    *)
(* the reader configuration built from the options of the run.             *)
(***************************************************************************)
C17_OneProcessorAfterTheGate ==
  /\ ovg <= 1
  /\ ovg = 1 =>
       /\ paths # <<>>
       /\ printed = paths
       /\ disable_confirmation \/ (LineRead /\ Lower(inp) \in YesTokens)
  /\ (Ended /\ (exc \in {"OSError", "EOFError"} \/ paths = <<>>
                \/ (LineRead /\ Lower(inp) \notin YesTokens))) =>
       (ovg = 0 /\ ovg_state = NoState)
  /\ Len(served) = Len(calls)
  /\ \A k \in 1..Len(served) :
       /\ served[k].instance = 1
       /\ served[k].state.r2l = right_to_left
       /\ served[k].state = default_state
       /\ served[k].state = served[1].state

\* two volumes served by the one processor, set up left-to-right after "y"
C17_Witness ==
  /\ pc = "returned"
  /\ ~right_to_left
  /\ inp = <<"y">>
  /\ reads = 1
  /\ ovg = 1
  /\ Len(served) = 2
  /\ served[2] = [instance |-> 1, state |-> default_state]

====
